---- MODULE Spec2Model ----
(***************************************************************************)
(* Model of config.go of analytics-go: the Config record, Config.validate  *)
(* and makeConfig.                                                         *)
(*                                                                         *)
(* A client under construction holds the caller's Config (raw).  validate  *)
(* inspects it and returns nil or a ConfigError; makeConfig receives a     *)
(* copy (Go passes Config by value) and returns the copy with every        *)
(* zero-valued field replaced by its default.  Several clients may be      *)
(* constructed in one process; makeConfig touches no shared variable, so   *)
(* each call is one atomic step of its client.                             *)
(*                                                                         *)
(* Names: the specification calls Config.Interval "flushInterval",         *)
(* Config.BatchSize "batchSize", Config.Now "clock", Config.UID            *)
(* "uidGenerator", Config.RetryAfter "retryPolicy", makeConfig "resolve"   *)
(* and ConfigError "ConfigurationError".  The model keeps the source's     *)
(* names.                                                                  *)
(*                                                                         *)
(* time.Duration values are counted in milliseconds here (the source       *)
(* counts nanoseconds in an int64; no arithmetic is done on them, only     *)
(* comparisons with 0, so the unit does not matter).                       *)
(***************************************************************************)
EXTENDS Integers, FiniteSets, Sequences, TLC

\* ---------------------------------------------------------------- bounds
\* Number of clients constructed in the process.
NumClients == 2
\* Number of times makeConfig is applied in a row to one client's record.
MaxResolves == 2

Clients == 1..NumClients

\* ------------------------------------------------------------- constants
\* time.Second, in the model's unit of time.Duration.
Second == 1000

DefaultEndpoint == "https://api.segment.io"

DefaultInterval == 5 * Second

DefaultBatchSize == 250

\* ---------------------------------------------------- handles and values
\* Interface, pointer and function values are handles: a kind and, for
\* objects constructed at run time, the number of the instance.
Handle(k, n) == [kind |-> k, id |-> n]

\* The nil interface / nil func value.
nil == Handle("nil", 0)

\* A value supplied by the caller for the field named f.
Custom(f) == Handle("custom" \o f, 0)

\* http.DefaultTransport: a package-level variable of net/http, one per
\* process.
DefaultTransport == Handle("http.DefaultTransport", 0)

\* The package function uid.
uid == Handle("uid", 0)

\* The function time.Now.
timeNow == Handle("time.Now", 0)

\* newDefaultLogger(): makeConfig calls it each time it finds Logger nil.
\* Its body is in another file of the package; as a constructor, its n-th
\* call returns the n-th logger instance.
newDefaultLogger(n) == Handle("defaultLogger", n)

\* backo.DefaultBacko().Duration: makeConfig calls the constructor of the
\* backo package each time it finds RetryAfter nil and takes the method
\* value bound to the Backo instance that call returns, the n-th.
DefaultBackoDuration(n) == Handle("backo.Duration", n)

\* The error values validate can return.
NoError == [Reason |-> "", Field |-> "", Value |-> 0, isNil |-> TRUE]

ConfigError(reason, field, value) ==
    [Reason |-> reason, Field |-> field, Value |-> value, isNil |-> FALSE]

\* ------------------------------------------------------------ the inputs
Endpoints == {"", "https://custom.example.com"}
Intervals == {-1 * Second, 0, 1 * Second, DefaultInterval}
BatchSizes == {-5, 0, 10, DefaultBatchSize}

\* type Config struct
Config ==
    [Endpoint : Endpoints,
     Interval : Intervals,
     Transport : {nil, Custom("Transport")},
     Logger : {nil, Custom("Logger")},
     BatchSize : BatchSizes,
     Verbose : BOOLEAN,
     UID : {nil, Custom("UID")},
     Now : {nil, Custom("Now")},
     RetryAfter : {nil, Custom("RetryAfter")}]

\* Config{}: every field at its zero value.
ZeroConfig ==
    [Endpoint |-> "", Interval |-> 0, Transport |-> nil, Logger |-> nil,
     BatchSize |-> 0, Verbose |-> FALSE, UID |-> nil, Now |-> nil,
     RetryAfter |-> nil]

\* The records in which only the collaborators that have a process-wide or
\* constructed default (Transport, Logger, RetryAfter) are set or unset.
CollaboratorConfigs ==
    {c \in Config :
        /\ c.Endpoint = "" /\ c.Interval = 0 /\ c.BatchSize = 0
        /\ c.Verbose = FALSE /\ c.UID = nil /\ c.Now = nil}

\* ---------------------------------------------------------------- validate
\* Mutant: the batch-size check rejects zero as well.
validate_rejectsZeroBatch(c) ==
    IF c.Interval < 0
    THEN ConfigError("negative time intervals are not supported",
                     "Interval", c.Interval)
    ELSE IF c.BatchSize <= 0
    THEN ConfigError("negative batch sizes are not supported",
                     "BatchSize", c.BatchSize)
    ELSE NoError

\* Mutant: the interval error reports the batch size as the value.
validate_wrongValue(c) ==
    IF c.Interval < 0
    THEN ConfigError("negative time intervals are not supported",
                     "Interval", c.BatchSize)
    ELSE IF c.BatchSize < 0
    THEN ConfigError("negative batch sizes are not supported",
                     "BatchSize", c.BatchSize)
    ELSE NoError

\* Mutant: the batch-size error carries the interval's reason.
validate_wrongReason(c) ==
    IF c.Interval < 0
    THEN ConfigError("negative time intervals are not supported",
                     "Interval", c.Interval)
    ELSE IF c.BatchSize < 0
    THEN ConfigError("negative time intervals are not supported",
                     "BatchSize", c.BatchSize)
    ELSE NoError

\* Mutant: the batch size is checked before the interval.
validate_batchFirst(c) ==
    IF c.BatchSize < 0
    THEN ConfigError("negative batch sizes are not supported",
                     "BatchSize", c.BatchSize)
    ELSE IF c.Interval < 0
    THEN ConfigError("negative time intervals are not supported",
                     "Interval", c.Interval)
    ELSE NoError

\* func (c *Config) validate() error
validate(c) ==
    IF c.Interval < 0
    THEN ConfigError("negative time intervals are not supported",
                     "Interval", c.Interval)
    ELSE IF c.BatchSize < 0
    THEN ConfigError("negative batch sizes are not supported",
                     "BatchSize", c.BatchSize)
    ELSE NoError

\* -------------------------------------------------------------- makeConfig
\* lg and bk are the values the calls newDefaultLogger() and
\* backo.DefaultBacko().Duration return if makeConfig makes them.

\* Mutant: the interval is defaulted to one second.
makeConfig_wrongInterval(c, lg, bk) ==
    [Endpoint |-> IF c.Endpoint = "" THEN DefaultEndpoint ELSE c.Endpoint,
     Interval |-> IF c.Interval = 0 THEN Second ELSE c.Interval,
     Transport |-> IF c.Transport = nil THEN DefaultTransport ELSE c.Transport,
     Logger |-> IF c.Logger = nil THEN lg ELSE c.Logger,
     BatchSize |-> IF c.BatchSize = 0 THEN DefaultBatchSize ELSE c.BatchSize,
     Verbose |-> c.Verbose,
     UID |-> IF c.UID = nil THEN uid ELSE c.UID,
     Now |-> IF c.Now = nil THEN timeNow ELSE c.Now,
     RetryAfter |-> IF c.RetryAfter = nil THEN bk ELSE c.RetryAfter]

\* Mutant: the endpoint is always set to the default.
makeConfig_overwritesEndpoint(c, lg, bk) ==
    [Endpoint |-> DefaultEndpoint,
     Interval |-> IF c.Interval = 0 THEN DefaultInterval ELSE c.Interval,
     Transport |-> IF c.Transport = nil THEN DefaultTransport ELSE c.Transport,
     Logger |-> IF c.Logger = nil THEN lg ELSE c.Logger,
     BatchSize |-> IF c.BatchSize = 0 THEN DefaultBatchSize ELSE c.BatchSize,
     Verbose |-> c.Verbose,
     UID |-> IF c.UID = nil THEN uid ELSE c.UID,
     Now |-> IF c.Now = nil THEN timeNow ELSE c.Now,
     RetryAfter |-> IF c.RetryAfter = nil THEN bk ELSE c.RetryAfter]

\* Mutant: the logger is replaced on every call, set or not.
makeConfig_alwaysNewLogger(c, lg, bk) ==
    [Endpoint |-> IF c.Endpoint = "" THEN DefaultEndpoint ELSE c.Endpoint,
     Interval |-> IF c.Interval = 0 THEN DefaultInterval ELSE c.Interval,
     Transport |-> IF c.Transport = nil THEN DefaultTransport ELSE c.Transport,
     Logger |-> IF c.Logger = nil \/ c.Logger.kind = "defaultLogger"
                THEN lg ELSE c.Logger,
     BatchSize |-> IF c.BatchSize = 0 THEN DefaultBatchSize ELSE c.BatchSize,
     Verbose |-> c.Verbose,
     UID |-> IF c.UID = nil THEN uid ELSE c.UID,
     Now |-> IF c.Now = nil THEN timeNow ELSE c.Now,
     RetryAfter |-> IF c.RetryAfter = nil THEN bk ELSE c.RetryAfter]

\* Mutant: the Now field is not defaulted.
makeConfig_noNow(c, lg, bk) ==
    [Endpoint |-> IF c.Endpoint = "" THEN DefaultEndpoint ELSE c.Endpoint,
     Interval |-> IF c.Interval = 0 THEN DefaultInterval ELSE c.Interval,
     Transport |-> IF c.Transport = nil THEN DefaultTransport ELSE c.Transport,
     Logger |-> IF c.Logger = nil THEN lg ELSE c.Logger,
     BatchSize |-> IF c.BatchSize = 0 THEN DefaultBatchSize ELSE c.BatchSize,
     Verbose |-> c.Verbose,
     UID |-> IF c.UID = nil THEN uid ELSE c.UID,
     Now |-> c.Now,
     RetryAfter |-> IF c.RetryAfter = nil THEN bk ELSE c.RetryAfter]

\* Mutant: non-positive intervals and batch sizes are defaulted.
makeConfig_defaultsNegatives(c, lg, bk) ==
    [Endpoint |-> IF c.Endpoint = "" THEN DefaultEndpoint ELSE c.Endpoint,
     Interval |-> IF c.Interval <= 0 THEN DefaultInterval ELSE c.Interval,
     Transport |-> IF c.Transport = nil THEN DefaultTransport ELSE c.Transport,
     Logger |-> IF c.Logger = nil THEN lg ELSE c.Logger,
     BatchSize |-> IF c.BatchSize <= 0 THEN DefaultBatchSize ELSE c.BatchSize,
     Verbose |-> c.Verbose,
     UID |-> IF c.UID = nil THEN uid ELSE c.UID,
     Now |-> IF c.Now = nil THEN timeNow ELSE c.Now,
     RetryAfter |-> IF c.RetryAfter = nil THEN bk ELSE c.RetryAfter]

\* func makeConfig(c Config) Config
makeConfig(c, lg, bk) ==
    [Endpoint |-> IF c.Endpoint = "" THEN DefaultEndpoint ELSE c.Endpoint,
     Interval |-> IF c.Interval = 0 THEN DefaultInterval ELSE c.Interval,
     Transport |-> IF c.Transport = nil THEN DefaultTransport ELSE c.Transport,
     Logger |-> IF c.Logger = nil THEN lg ELSE c.Logger,
     BatchSize |-> IF c.BatchSize = 0 THEN DefaultBatchSize ELSE c.BatchSize,
     Verbose |-> c.Verbose,
     UID |-> IF c.UID = nil THEN uid ELSE c.UID,
     Now |-> IF c.Now = nil THEN timeNow ELSE c.Now,
     RetryAfter |-> IF c.RetryAfter = nil THEN bk ELSE c.RetryAfter]

\* ------------------------------------------------------------------- state
VARIABLES
    live,         \* the clients being constructed in this run
    raw,          \* raw[p]: the Config the caller of client p holds
    validated,    \* validated[p]: validate has been called on raw[p]
    err,          \* err[p]: what validate returned
    resolves,     \* resolves[p]: number of makeConfig applications so far
    cfg,          \* cfg[p]: the record returned by the last makeConfig
    loggersMade,  \* number of calls of newDefaultLogger() in the process
    backosMade    \* number of calls of backo.DefaultBacko() in the process

vars == <<live, raw, validated, err, resolves, cfg, loggersMade, backosMade>>

InitCommon ==
    /\ validated = [p \in Clients |-> FALSE]
    /\ err = [p \in Clients |-> NoError]
    /\ resolves = [p \in Clients |-> 0]
    /\ cfg = raw
    /\ loggersMade = 0
    /\ backosMade = 0

\* One client is constructed, from any Config.
Init ==
    /\ live = {1}
    /\ \E c \in Config : raw = [p \in Clients |-> IF p = 1 THEN c ELSE ZeroConfig]
    /\ InitCommon

\* Every client is constructed; the Configs differ in their collaborators.
InitConc ==
    /\ live = Clients
    /\ raw \in [Clients -> CollaboratorConfigs]
    /\ InitCommon

\* err = config.validate()
Validate(p) ==
    /\ p \in live
    /\ ~validated[p]
    /\ validated' = [validated EXCEPT ![p] = TRUE]
    /\ err' = [err EXCEPT ![p] = validate(raw[p])]
    /\ UNCHANGED <<live, raw, resolves, cfg, loggersMade, backosMade>>

\* config = makeConfig(config), applied to the caller's record the first
\* time and to its own result afterwards.
Resolve(p) ==
    /\ p \in live
    /\ resolves[p] < MaxResolves
    /\ LET c == cfg[p]
           lg == newDefaultLogger(loggersMade + 1)
           bk == DefaultBackoDuration(backosMade + 1)
           out == makeConfig(c, lg, bk)
       IN /\ cfg' = [cfg EXCEPT ![p] = out]
          /\ loggersMade' = IF out.Logger = lg THEN loggersMade + 1
                            ELSE loggersMade
          /\ backosMade' = IF out.RetryAfter = bk THEN backosMade + 1
                           ELSE backosMade
    /\ resolves' = [resolves EXCEPT ![p] = @ + 1]
    /\ UNCHANGED <<live, raw, validated, err>>

Next == \E p \in Clients : Validate(p) \/ Resolve(p)

Spec == Init /\ [][Next]_vars

SpecConc == InitConc /\ [][Next]_vars

TypeOK ==
    /\ live \subseteq Clients
    /\ raw \in [Clients -> Config]
    /\ validated \in [Clients -> BOOLEAN]
    /\ resolves \in [Clients -> 0..MaxResolves]
    /\ loggersMade \in 0..NumClients
    /\ backosMade \in 0..NumClients

\* The fields of Config that makeConfig defaults.
Defaultable ==
    {"Endpoint", "Interval", "Transport", "Logger", "BatchSize", "UID",
     "Now", "RetryAfter"}

\* The zero value of the field named f.
ZeroOf(f) == ZeroConfig[f]

\* The client p has had makeConfig applied to its record.
Resolved(p) == p \in live /\ resolves[p] >= 1

\* The client p has had validate applied to its record.
Validated(p) == p \in live /\ validated[p]

\* ------------------------------------------------------------------ claims

\* C1: validate returns no error for every record whose Interval
\* (flushInterval) and BatchSize are both >= 0, whatever the other fields.
C1_ValidateAcceptsNonNegative ==
    \A p \in Clients :
        (Validated(p) /\ raw[p].Interval >= 0 /\ raw[p].BatchSize >= 0)
            => err[p] = NoError

\* A record with a zero batch size, a positive interval and some
\* collaborators set, others not, has been validated.
C1_Witness ==
    \E p \in Clients :
        /\ Validated(p)
        /\ raw[p].Interval > 0 /\ raw[p].BatchSize = 0
        /\ raw[p].Logger = nil /\ raw[p].UID # nil
        /\ err[p] = NoError

\* C2: for every record with Interval (flushInterval) < 0, validate returns
\* the error with reason "negative time intervals are not supported", the
\* interval field as its field and the input interval as its value.
C2_NegativeIntervalError ==
    \A p \in Clients :
        (Validated(p) /\ raw[p].Interval < 0)
            => err[p] = ConfigError("negative time intervals are not supported",
                                    "Interval", raw[p].Interval)

\* A record with a negative interval and a different, positive batch size
\* has been validated.
C2_Witness ==
    \E p \in Clients :
        /\ Validated(p)
        /\ raw[p].Interval = -1 * Second /\ raw[p].BatchSize = 10
        /\ ~err[p].isNil /\ err[p].Value = -1 * Second

\* C3: for every record with BatchSize < 0 and Interval >= 0, validate
\* returns the error with reason "negative batch sizes are not supported",
\* the batch-size field as its field and the input batch size as its value.
C3_NegativeBatchSizeError ==
    \A p \in Clients :
        (Validated(p) /\ raw[p].BatchSize < 0 /\ raw[p].Interval >= 0)
            => err[p] = ConfigError("negative batch sizes are not supported",
                                    "BatchSize", raw[p].BatchSize)

\* The record {BatchSize: -5} has been validated.
C3_Witness ==
    \E p \in Clients :
        /\ Validated(p)
        /\ raw[p].BatchSize = -5 /\ raw[p].Interval = 0
        /\ err[p].Field = "BatchSize" /\ err[p].Value = -5

\* The documented default of each field; the logger and the retry policy
\* are instances made by their default constructors.
IsDefault(f, v) ==
    CASE f = "Endpoint" -> v = "https://api.segment.io"
      [] f = "Interval" -> v = 5 * Second
      [] f = "Transport" -> v = DefaultTransport
      [] f = "Logger" -> v.kind = "defaultLogger" /\ v.id >= 1
      [] f = "BatchSize" -> v = 250
      [] f = "UID" -> v = uid
      [] f = "Now" -> v = timeNow
      [] f = "RetryAfter" -> v.kind = "backo.Duration" /\ v.id >= 1

\* C4: every field at its zero value in the input is, in the record
\* makeConfig returns, at its own documented default; the all-zero record
\* resolves to endpoint "https://api.segment.io", interval 5s, batch 250.
C4_ZeroFieldsGetTheirDefault ==
    \A p \in Clients :
        Resolved(p) =>
            /\ \A f \in Defaultable :
                   raw[p][f] = ZeroOf(f) => IsDefault(f, cfg[p][f])
            /\ raw[p] = ZeroConfig =>
                   /\ cfg[p].Endpoint = "https://api.segment.io"
                   /\ cfg[p].Interval = 5000
                   /\ cfg[p].BatchSize = 250

\* The all-zero record has been resolved.
C4_Witness ==
    \E p \in Clients :
        /\ Resolved(p)
        /\ raw[p] = ZeroConfig
        /\ cfg[p].Interval = DefaultInterval

\* C5: every field set to a non-zero value in the input has exactly that
\* value in the record makeConfig returns, whatever the other fields are.
C5_SetFieldsAreKept ==
    \A p \in Clients :
        Resolved(p) =>
            /\ \A f \in Defaultable :
                   raw[p][f] # ZeroOf(f) => cfg[p][f] = raw[p][f]
            /\ cfg[p].Verbose = raw[p].Verbose

\* The record {Endpoint: custom, BatchSize: 10} has been resolved: both
\* values are kept and the interval is defaulted.
C5_Witness ==
    \E p \in Clients :
        /\ Resolved(p)
        /\ raw[p] = [ZeroConfig EXCEPT !.Endpoint = "https://custom.example.com",
                                       !.BatchSize = 10]
        /\ cfg[p].Endpoint = "https://custom.example.com"
        /\ cfg[p].BatchSize = 10
        /\ cfg[p].Interval = DefaultInterval

\* C6: makeConfig applied to a record makeConfig returned changes no field
\* of it (the verbose flag and the handle-valued fields included).
C6_ResolveIsIdempotent ==
    [][\A p \in Clients :
          (Resolved(p) /\ resolves'[p] = resolves[p] + 1) => cfg'[p] = cfg[p]]_vars

\* makeConfig has been applied a second time, to a record whose logger and
\* retry policy the first application had defaulted.
C6_Witness ==
    \E p \in Clients :
        /\ p \in live /\ resolves[p] = 2
        /\ raw[p].Logger = nil /\ raw[p].RetryAfter = nil
        /\ cfg[p].Logger.kind = "defaultLogger"

\* C7: for every record validate accepts, the record makeConfig returns has
\* Interval > 0, BatchSize > 0 and no defaultable field at its zero value.
C7_ValidThenResolvedIsPopulated ==
    \A p \in Clients :
        (Validated(p) /\ err[p] = NoError /\ Resolved(p)) =>
            /\ cfg[p].Interval > 0
            /\ cfg[p].BatchSize > 0
            /\ \A f \in Defaultable : cfg[p][f] # ZeroOf(f)

\* A record with some fields set and others unset has been validated
\* without error and then resolved.
C7_Witness ==
    \E p \in Clients :
        /\ Validated(p) /\ err[p] = NoError /\ Resolved(p)
        /\ raw[p].Interval = 0 /\ raw[p].BatchSize = 10
        /\ raw[p].Now = nil /\ raw[p].Transport # nil

\* C8: when Interval < 0 and BatchSize < 0, validate returns the single
\* error of the interval, with the input interval as its value; it returns
\* the batch-size error only when Interval >= 0.
C8_IntervalCheckedFirst ==
    \A p \in Clients :
        Validated(p) =>
            /\ (raw[p].Interval < 0 /\ raw[p].BatchSize < 0) =>
                   /\ err[p].Field = "Interval"
                   /\ err[p].Value = raw[p].Interval
                   /\ err[p].Reason = "negative time intervals are not supported"
            /\ err[p].Field = "BatchSize" => raw[p].Interval >= 0

\* A record with a negative interval and a negative batch size has been
\* validated.
C8_Witness ==
    \E p \in Clients :
        /\ Validated(p)
        /\ raw[p].Interval < 0 /\ raw[p].BatchSize < 0
        /\ ~err[p].isNil

\* C9: makeConfig applied to a record validate rejects returns a record in
\* which the negative Interval / BatchSize is the input's, neither zero nor
\* the default, and the unset fields are defaulted.
C9_InvalidValuesPassThrough ==
    \A p \in Clients :
        (Resolved(p) /\ ~validate(raw[p]).isNil) =>
            /\ raw[p].Interval < 0 =>
                   /\ cfg[p].Interval = raw[p].Interval
                   /\ cfg[p].Interval \notin {0, DefaultInterval}
            /\ raw[p].BatchSize < 0 =>
                   /\ cfg[p].BatchSize = raw[p].BatchSize
                   /\ cfg[p].BatchSize \notin {0, DefaultBatchSize}
            /\ \A f \in Defaultable \ {"Interval", "BatchSize"} :
                   raw[p][f] = ZeroOf(f) => IsDefault(f, cfg[p][f])
            /\ (raw[p].Interval = 0 => cfg[p].Interval = DefaultInterval)
            /\ (raw[p].BatchSize = 0 => cfg[p].BatchSize = DefaultBatchSize)

\* A record with a negative interval, a negative batch size and no logger
\* has been resolved.
C9_Witness ==
    \E p \in Clients :
        /\ Resolved(p)
        /\ raw[p].Interval < 0 /\ raw[p].BatchSize < 0 /\ raw[p].Logger = nil
        /\ cfg[p].Interval < 0 /\ cfg[p].BatchSize < 0

\* The clients whose makeConfig call found the field f unset.
DefaultedClients(f) == {p \in Clients : Resolved(p) /\ raw[p][f] = nil}

\* C10 as stated: however many makeConfig calls the process makes, the
\* default logger and the default backoff policy are each constructed at
\* most once.
C10_ConstructedAtMostOnce ==
    loggersMade <= 1 /\ backosMade <= 1

\* C10 amended: each makeConfig call on a record with no logger (no retry
\* policy) makes one call of the default logger's (backoff policy's)
\* constructor and gets an instance of its own, so the constructions number
\* as many as such calls; only the default transport is one shared
\* process-wide value.
C10_OneConstructionPerCall ==
    /\ loggersMade = Cardinality(DefaultedClients("Logger"))
    /\ backosMade = Cardinality(DefaultedClients("RetryAfter"))
    /\ \A p, q \in DefaultedClients("Logger") :
           p # q => cfg[p].Logger # cfg[q].Logger
    /\ \A p, q \in DefaultedClients("RetryAfter") :
           p # q => cfg[p].RetryAfter # cfg[q].RetryAfter
    /\ \A p, q \in DefaultedClients("Transport") :
           cfg[p].Transport = cfg[q].Transport

\* Two clients have resolved records with no logger, no retry policy and no
\* transport.
C10_Witness ==
    \E p, q \in Clients :
        /\ p # q
        /\ {p, q} \subseteq DefaultedClients("Logger")
        /\ {p, q} \subseteq DefaultedClients("RetryAfter")
        /\ {p, q} \subseteq DefaultedClients("Transport")
        /\ loggersMade = 2 /\ backosMade = 2
====
